---- MODULE Spec2Model ----
(***************************************************************************)
(* Usage-health reports over a Looker instance (rmli).  One invocation of  *)
(* one report endpoint of backend/src/rmli/views.py is modelled: the       *)
(* report function decorated with backoff.on_exception(expo, SDKError,     *)
(* max_tries=3), its remote calls, the join, the endpoint's statistics    *)
(* and the grade computed when the result is serialised.                   *)
(*                                                                         *)
(* Names (model, explore, user id, dashboard id, title) are naturals; 0    *)
(* stands for a missing name (None or the empty string), which Python's    *)
(* truth test rejects.  A percentage is the pair [num, den] the code       *)
(* divides; for the bounded integers used here the correctly rounded       *)
(* double num/den compares with a decimal literal exactly as the rational  *)
(* does, so comparisons are done by cross-multiplication.                  *)
(***************************************************************************)
EXTENDS Integers, Sequences, FiniteSets, TLC

VARIABLES
    report,            \* the endpoint that was invoked
    upstream,          \* what the Looker instance holds (fixed during a run)
    pc,                \* position of the invocation
    tries,             \* backoff's count of runs of the report function
    calls,             \* every remote call issued so far, in order
    raised,            \* every exception that left the report function
    results,           \* json.loads(results_raw) of the history query
    offset,            \* pagination offset
    explores,          \* accumulator of the model pages
    all_users,         \* accumulator of the user pages
    all_dashboards,    \* client.all_dashboards(...)
    explore_fields,    \* results of the gathered tasks finished so far
    gather_error,      \* first exception of a gathered task
    inactive_users,    \* eligible users without a query in the window
    inactive_user_percentage,
    sample_user_names, \* display names collected by the sample loop
    i,                 \* index of the sample loop
    output,            \* what the report function returned
    response,          \* the result object built by the endpoint
    serialized,        \* TestResult.dict() of the response
    failure            \* the exception that left the endpoint, if any

locals == <<results, offset, explores, all_users, all_dashboards, explore_fields,
            gather_error, inactive_users, inactive_user_percentage,
            sample_user_names, i>>

vars == <<report, upstream, pc, tries, calls, raised, locals, output, response,
          serialized, failure>>



----------------------------------------------------------------------------
(* Bounds of the model. *)

MaxPages == 2          \* full pages an upstream collection may span
MaxSmall == 2          \* length of the small, freely varied collections
MaxRows == 2           \* rows of a freely varied history query result

(* Program constants. *)

PageSize == 100        \* limit=100, "< 100", offset += 100
max_tries == 3         \* backoff.on_exception(..., max_tries=3)

----------------------------------------------------------------------------
(* Generic helpers. *)

Min(a, b) == IF a < b THEN a ELSE b

Range(seq) == {seq[k] : k \in 1..Len(seq)}

SeqsUpTo(S, n) == UNION {[1..k -> S] : k \in 0..n}

(* Sequences of at most n records of S that differ in the key field. *)
KeyedSeqsUpTo(S, n, key) ==
    {q \in SeqsUpTo(S, n) :
        \A a, b \in 1..Len(q) : a # b => q[a][key] # q[b][key]}

Reports ==
    {"inactive_users", "slow_explores", "large_explores", "unused_explores",
     "abandoned_dashboards", "overused_queries"}

----------------------------------------------------------------------------
(* The Looker instance.  A collection is served by offset: a list call     *)
(* with limit and offset returns the items offset+1 .. offset+limit that   *)
(* exist.                                                                  *)

Page(items, off, limit) ==
    IF off >= Len(items) THEN <<>>
    ELSE SubSeq(items, off + 1, Min(off + limit, Len(items)))

(* Lengths around the page boundaries: k*P, k*P + 1, k*P + P - 1. *)
Lengths ==
    {k * PageSize + d : k \in 0..(MaxPages - 1), d \in {0, 1, PageSize - 1}}
        \cup {MaxPages * PageSize}

(* How the calls of an instance can fail: SDKError for a transient cause   *)
(* (network, 5xx, rate limit) or a fatal one (authentication, malformed    *)
(* request), and a query answered with a body that json.loads rejects.     *)
AllFaults == {"transient", "fatal", "malformed"}

(* In a long catalog the models next to a page boundary and the last one   *)
(* have one visible explore each, the others have none.  An explore holds  *)
(* the numbers of its dimensions and measures.                             *)
NearBoundary(k, n) == (k % PageSize) \in {0, 1, 2, PageSize - 1} \/ k = n

LongModels(n) ==
    [k \in 1..n |->
        [name |-> k,
         explores |-> IF NearBoundary(k, n)
                      THEN <<[name |-> k, hidden |-> FALSE,
                              dimensions |-> k, measures |-> 0]>>
                      ELSE <<>>]]

ExploreRecs ==
    {[name |-> 1, hidden |-> FALSE, dimensions |-> 200, measures |-> 99],
     [name |-> 2, hidden |-> FALSE, dimensions |-> 300, measures |-> 0],
     [name |-> 2, hidden |-> TRUE, dimensions |-> 700, measures |-> 50],
     [name |-> 0, hidden |-> FALSE, dimensions |-> 1, measures |-> 1]}

SecondModels ==
    {<<>>,
     <<[name |-> 2, explores |-> <<[name |-> 1, hidden |-> FALSE,
                                    dimensions |-> 300, measures |-> 0]>>]>>,
     <<[name |-> 0, explores |-> <<[name |-> 1, hidden |-> FALSE,
                                    dimensions |-> 2, measures |-> 2]>>]>>,
     <<[name |-> 2, explores |-> <<>>]>>}

SmallModels ==
    {<<[name |-> 1, explores |-> es]>> \o second :
        es \in KeyedSeqsUpTo(ExploreRecs, MaxSmall, "name"), second \in SecondModels}

BaseModels ==
    <<[name |-> 1, explores |-> <<[name |-> 1, hidden |-> FALSE,
                                   dimensions |-> 200, measures |-> 99],
                                  [name |-> 2, hidden |-> FALSE,
                                   dimensions |-> 300, measures |-> 0]>>]>>

(* Rows of the explore usage query: query.model, query.view,               *)
(* history.query_run_count.                                                *)
UsageRowRecs ==
    {[model |-> 1, view |-> 1, count |-> 5], [model |-> 1, view |-> 1, count |-> 3],
     [model |-> 1, view |-> 2, count |-> 0], [model |-> 1, view |-> 2, count |-> 49],
     [model |-> 2, view |-> 1, count |-> 50]}

BaseUsageRows ==
    <<[model |-> 1, view |-> 1, count |-> 5], [model |-> 1, view |-> 1, count |-> 3],
      [model |-> 1, view |-> 2, count |-> 0], [model |-> 2, view |-> 1, count |-> 50]>>

(* A catalog of one model with n visible explores named 1..n, and usage    *)
(* rows that give the explores first..n fifty runs each.                   *)
ManyExplores(n) ==
    <<[name |-> 1,
       explores |-> [k \in 1..n |-> [name |-> k, hidden |-> FALSE,
                                     dimensions |-> 1, measures |-> 0]]]>>

UsedFrom(first, n) ==
    [k \in 1..(n - first + 1) |-> [model |-> 1, view |-> first + k - 1, count |-> 50]]

(* Rows of the slow-explores query: query.model, query.view,               *)
(* history.average_runtime, history.max_runtime (seconds).                 *)
RuntimeRowRecs ==
    {[model |-> 1, view |-> 1, avg_runtime |-> 20, max_runtime |-> 60],
     [model |-> 1, view |-> 2, avg_runtime |-> 40, max_runtime |-> 60],
     [model |-> 2, view |-> 1, avg_runtime |-> 41, max_runtime |-> 41],
     [model |-> 2, view |-> 2, avg_runtime |-> 40, max_runtime |-> 45]}

(* A result of five rows, three of them with the same average runtime. *)
BaseRuntimeRows ==
    <<[model |-> 1, view |-> 1, avg_runtime |-> 20, max_runtime |-> 60],
      [model |-> 1, view |-> 2, avg_runtime |-> 40, max_runtime |-> 60],
      [model |-> 2, view |-> 1, avg_runtime |-> 40, max_runtime |-> 41],
      [model |-> 2, view |-> 2, avg_runtime |-> 41, max_runtime |-> 45],
      [model |-> 3, view |-> 1, avg_runtime |-> 40, max_runtime |-> 40]>>

(* Rows of the query usage query: query.id,                                *)
(* history.database_result_query_count.                                    *)
QueryRowRecs ==
    {[id |-> 1, count |-> 1680], [id |-> 2, count |-> 3360], [id |-> 3, count |-> 3361]}

(* Users: id, is_disabled, verified_looker_employee, display_name.  In a   *)
(* long user list everybody is eligible and user 2 has no display name.    *)
LongUsers(n) ==
    [k \in 1..n |->
        [id |-> k, is_disabled |-> FALSE, verified_looker_employee |-> FALSE,
         display_name |-> IF k = 2 THEN 0 ELSE k]]

UserRecs ==
    {[id |-> 1, is_disabled |-> FALSE, verified_looker_employee |-> FALSE, display_name |-> 1],
     [id |-> 2, is_disabled |-> FALSE, verified_looker_employee |-> FALSE, display_name |-> 0],
     [id |-> 3, is_disabled |-> TRUE, verified_looker_employee |-> FALSE, display_name |-> 3],
     [id |-> 4, is_disabled |-> FALSE, verified_looker_employee |-> TRUE, display_name |-> 4]}

BaseUsers ==
    <<[id |-> 1, is_disabled |-> FALSE, verified_looker_employee |-> FALSE, display_name |-> 1],
      [id |-> 2, is_disabled |-> FALSE, verified_looker_employee |-> FALSE, display_name |-> 0],
      [id |-> 3, is_disabled |-> TRUE, verified_looker_employee |-> FALSE, display_name |-> 3],
      [id |-> 5, is_disabled |-> FALSE, verified_looker_employee |-> FALSE, display_name |-> 5]>>

(* Rows of the active-user query: history.user_id. *)
ActiveRowRecs == {[user_id |-> 1], [user_id |-> 2], [user_id |-> 6]}

BaseActiveRows == <<[user_id |-> 1], [user_id |-> PageSize], [user_id |-> 1]>>

(* A query result that names the users 1..m as active. *)
ActiveFirst(m) == [k \in 1..m |-> [user_id |-> k]]

(* Dashboards: id, title. *)
DashboardRecs ==
    {[id |-> 1, title |-> 1], [id |-> 2, title |-> 2], [id |-> 3, title |-> 0],
     [id |-> 0, title |-> 4]}

BaseDashboards == <<[id |-> 2, title |-> 2], [id |-> 1, title |-> 1], [id |-> 3, title |-> 0]>>

(* Rows of the dashboard usage query: history.real_dash_id,                *)
(* history.query_run_count.                                                *)
DashRowRecs ==
    {[dash_id |-> 1, count |-> 4], [dash_id |-> 2, count |-> 0], [dash_id |-> 3, count |-> 7]}

BaseDashRows == <<[dash_id |-> 1, count |-> 4], [dash_id |-> 1, count |-> 2]>>

(* n dashboards with id and title 1..n, and a query result with one run    *)
(* for each of the dashboards first..n.                                    *)
ManyDashboards(n) == [k \in 1..n |-> [id |-> k, title |-> k]]

QueriedFrom(first, n) == [k \in 1..(n - first + 1) |-> [dash_id |-> first + k - 1, count |-> 1]]

NoData ==
    [models |-> <<>>, rows |-> <<>>, users |-> <<>>, dashboards |-> <<>>,
     faults |-> AllFaults]

(* The instances an invocation of report r is run against: a freely varied *)
(* collection beside fixed ones, and long collections around the page      *)
(* boundaries.  Natural keys are unique: explore names within a model,     *)
(* user ids, dashboard ids.                                                *)
Upstreams(r) ==
    CASE r = "unused_explores" ->
            {[NoData EXCEPT !.models = m, !.rows = BaseUsageRows] : m \in SmallModels}
            \cup {[NoData EXCEPT !.models = BaseModels, !.rows = rows] :
                    rows \in SeqsUpTo(UsageRowRecs, MaxRows)}
            \cup {[NoData EXCEPT !.models = LongModels(n), !.rows = BaseUsageRows] :
                    n \in Lengths}
            \cup {[NoData EXCEPT !.models = ManyExplores(120), !.rows = UsedFrom(7, 120),
                                 !.faults = {"transient"}]}
      [] r = "large_explores" ->
            {[NoData EXCEPT !.models = m] : m \in SmallModels}
            \cup {[NoData EXCEPT !.models = LongModels(n), !.faults = {"transient"}] :
                    n \in Lengths}
      [] r = "inactive_users" ->
            {[NoData EXCEPT !.users = u, !.rows = BaseActiveRows,
                                 !.faults = {"transient"}] :
                    u \in KeyedSeqsUpTo(UserRecs, MaxSmall, "id")}
            \cup {[NoData EXCEPT !.users = BaseUsers, !.rows = rows,
                                 !.faults = {"transient"}] :
                    rows \in SeqsUpTo(ActiveRowRecs, MaxRows)}
            \cup {[NoData EXCEPT !.users = BaseUsers, !.rows = BaseActiveRows]}
            \cup {[NoData EXCEPT !.users = LongUsers(n), !.rows = BaseActiveRows,
                                 !.faults = {"transient"}] : n \in Lengths}
            \cup {[NoData EXCEPT !.users = LongUsers(10), !.rows = ActiveFirst(m),
                                 !.faults = {"transient"}] : m \in {0, 7, 9}}
      [] r = "abandoned_dashboards" ->
            {[NoData EXCEPT !.dashboards = d, !.rows = BaseDashRows] :
                    d \in KeyedSeqsUpTo(DashboardRecs, MaxSmall, "id")}
            \cup {[NoData EXCEPT !.dashboards = BaseDashboards, !.rows = rows] :
                    rows \in SeqsUpTo(DashRowRecs, MaxRows)}
            \cup {[NoData EXCEPT !.dashboards = ManyDashboards(n),
                                 !.rows = QueriedFrom(2, n)] : n \in {10, 20}}
            \cup {[NoData EXCEPT !.dashboards = ManyDashboards(12),
                                 !.rows = QueriedFrom(3, 9)]}
      [] r = "slow_explores" ->
            {[NoData EXCEPT !.rows = rows] : rows \in SeqsUpTo(RuntimeRowRecs, MaxRows)}
            \cup {[NoData EXCEPT !.rows = BaseRuntimeRows]}
      [] r = "overused_queries" ->
            {[NoData EXCEPT !.rows = rows] : rows \in SeqsUpTo(QueryRowRecs, MaxRows)}

----------------------------------------------------------------------------
(* Exceptions. *)

NoError == [type |-> "none", cause |-> "none"]
SDKError(cause) == [type |-> "SDKError", cause |-> cause]
ValueError == [type |-> "ValueError", cause |-> "json"]
ZeroDivisionError == [type |-> "ZeroDivisionError", cause |-> "division by zero"]
IndexError == [type |-> "IndexError", cause |-> "list index out of range"]
StatisticsError == [type |-> "StatisticsError", cause |-> "no median for empty data"]

(* What a remote call can do: answer, or raise SDKError.  The answer of    *)
(* run_inline_query can also be a body that json.loads rejects.            *)
CallOutcomes == {"ok"} \cup (upstream.faults \ {"malformed"})
QueryOutcomes == {"ok"} \cup upstream.faults

(* Variant: every exception is retried. *)
Retried_Any(e) == TRUE

(* backoff.on_exception(backoff.expo, SDKError, max_tries=3): the          *)
(* exception class that is retried.                                        *)
Retried(e) == e.type = "SDKError"

----------------------------------------------------------------------------
(* The report functions' pure parts. *)

(* Variant: the filter without the hidden flag, in every report. *)
KeepExplore_HiddenToo(r, model, e) == model.name # 0 /\ e.name # 0

(* The filter of the page loop: "if model.name and explore.name" (and      *)
(* "not hidden" in get_unused_explores).                                   *)
KeepExplore(r, model, e) ==
    IF r = "unused_explores" THEN model.name # 0 /\ e.name # 0 /\ ~e.hidden
    ELSE model.name # 0 /\ e.name # 0

ModelExplores(r, model) ==
    LET kept == SelectSeq(model.explores, LAMBDA e : KeepExplore(r, model, e))
    IN  [j \in 1..Len(kept) |-> [model |-> model.name, explore |-> kept[j].name]]

(* "for model in models_page: ... explores.append(...)" from model i on. *)
RECURSIVE CollectFrom(_, _, _)
CollectFrom(r, models_page, k) ==
    IF k > Len(models_page) THEN <<>>
    ELSE ModelExplores(r, models_page[k]) \o CollectFrom(r, models_page, k + 1)

CollectPage(r, models_page) == CollectFrom(r, models_page, 1)

(* Variant: a full page ends the loop too. *)
LastModelsPage_FullPageStops(models_page) == Len(models_page) <= PageSize

(* "if len(models_page) < 100: keep_going = False" *)
LastModelsPage(models_page) == Len(models_page) < PageSize

(* Variant: the user loop ends on a short page, like the model loop. *)
LastUsersPage_ShortPageStops(users) == Len(users) < PageSize

(* Variant: the user loop has no end. *)
LastUsersPage_Never(users) == FALSE

(* "if len(users) == 0: keep_going = False" *)
LastUsersPage(users) == Len(users) = 0

(* Variant: the join compares the model only. *)
Matches_ModelOnly(row, explore) == row.model = explore.model

(* The test of the join: query.model and query.view equal the explore's. *)
Matches(row, explore) == row.model = explore.model /\ row.view = explore.explore

(* The inner loop of the join: what the rows lo..hi add to the run count   *)
(* of one explore (integer addition, so the halves can be added up).       *)
RECURSIVE RunCountIn(_, _, _, _)
RunCountIn(explore, rows, lo, hi) ==
    IF lo > hi THEN 0
    ELSE IF lo = hi THEN (IF Matches(rows[lo], explore) THEN rows[lo].count ELSE 0)
    ELSE LET mid == (lo + hi) \div 2
         IN  RunCountIn(explore, rows, lo, mid) + RunCountIn(explore, rows, mid + 1, hi)

(* The run count of one explore, rows j.. on. *)
RunCountFrom(explore, rows, j) == RunCountIn(explore, rows, j, Len(rows))

JoinExplores(exps, rows) ==
    [k \in 1..Len(exps) |->
        [model |-> exps[k].model, explore |-> exps[k].explore,
         query_run_count |-> RunCountFrom(exps[k], rows, 1)]]

(* Variant: an element goes before the elements of equal key, as when an   *)
(* ascending sort is reversed.                                             *)
GoesBefore_EqualLater(y, x, field, reverse) ==
    IF reverse THEN y[field] > x[field] ELSE y[field] < x[field]

(* sorted(seq, key=field, reverse=...): Python's sort is stable, also with *)
(* reverse=True.  x goes behind every element that does not sort after it. *)
GoesBefore(y, x, field, reverse) ==
    IF reverse THEN y[field] >= x[field] ELSE y[field] <= x[field]

(* The element at place j of seq comes before the one at place k in the    *)
(* sorted list.                                                            *)
SortsBefore(seq, j, k, field, reverse) ==
    IF j < k THEN GoesBefore(seq[j], seq[k], field, reverse)
    ELSE j > k /\ ~GoesBefore(seq[k], seq[j], field, reverse)

Sorted(seq, field, reverse) ==
    [p \in 1..Len(seq) |->
        seq[CHOOSE k \in 1..Len(seq) :
                Cardinality({j \in 1..Len(seq) :
                                SortsBefore(seq, j, k, field, reverse)}) = p - 1]]

(* seq[:3] *)
First3(seq) == SubSeq(seq, 1, Min(3, Len(seq)))

(* ExploreQueries.parse_obj: query_run_count becomes query_count. *)
ExploreQueries(d) ==
    [model_name |-> d.model, explore_name |-> d.explore, query_count |-> d.query_run_count]

(* ExplorePerformance.parse_obj *)
ExplorePerformance(d) ==
    [model_name |-> d.model, explore_name |-> d.view,
     avg_runtime |-> d.avg_runtime, max_runtime |-> d.max_runtime]

(* QueryUsage.parse_obj *)
QueryUsage(d) == [query_id |-> d.id, database_run_count |-> d.count]

Map(seq, Op(_)) == [k \in 1..Len(seq) |-> Op(seq[k])]

(* The "unused" test of the unused_explores endpoint. *)
IsUnused(explore) == explore.query_count = 0

(* client.lookml_model_explore(model, explore): the explore of that name   *)
(* in the first model of that name that has one.                           *)
LookupExplore(models, model, explore) ==
    LET hits == {h \in UNION {{<<m, e>> : e \in 1..Len(models[m].explores)} :
                                    m \in 1..Len(models)} :
                    /\ models[h[1]].name = model
                    /\ models[h[1]].explores[h[2]].name = explore}
        first == CHOOSE h \in hits : \A g \in hits :
                    h[1] < g[1] \/ (h[1] = g[1] /\ h[2] <= g[2])
    IN  models[first[1]].explores[first[2]]

(* get_explore_field_counts: len(dimension names + measure names) *)
get_explore_field_counts(models, model, explore) ==
    LET found == LookupExplore(models, model, explore)
    IN  [model |-> model, explore |-> explore,
         field_count |-> found.dimensions + found.measures]

(* ExploreSize.parse_obj *)
ExploreSize(d) ==
    [model_name |-> d.model, explore_name |-> d.explore, field_count |-> d.field_count]

(* Variant: the upper of the two middle elements of an even-length list. *)
MedianInt_UpperMiddle(counts) ==
    LET data == Sorted(counts, "field_count", FALSE)
    IN  data[Len(data) \div 2 + 1].field_count

(* int(statistics.median(data)) for a non-empty list of naturals: the      *)
(* middle element, or the mean of the two middle ones cut to an integer.   *)
MedianInt(counts) ==
    LET data == Sorted(counts, "field_count", FALSE)
        n == Len(data)
    IN  IF n % 2 = 1 THEN data[(n + 1) \div 2].field_count
        ELSE (data[n \div 2].field_count + data[n \div 2 + 1].field_count) \div 2

(* Variant: a division that never raises, as on floats that yield nan. *)
DivisionRaises_Never(den) == FALSE

(* Python's a / b on integers raises ZeroDivisionError when b is 0. *)
DivisionRaises(den) == den = 0

(* "Filter out disabled users and Looker employees" *)
Eligible(user) == ~user.is_disabled /\ ~user.verified_looker_employee

(* active_users_list, as the set of its elements *)
ActiveIds(rows) == {rows[k].user_id : k \in 1..Len(rows)}

(* Variant: the inactive users are taken from the unfiltered list. *)
InactiveUsers_Unfiltered(users, rows) ==
    SelectSeq(users, LAMBDA user : user.id \notin ActiveIds(rows))

InactiveUsers(users, rows) ==
    SelectSeq(SelectSeq(users, Eligible), LAMBDA user : user.id \notin ActiveIds(rows))

(* client.user(id).display_name *)
DisplayName(users, id) ==
    LET first == CHOOSE k \in 1..Len(users) :
                    users[k].id = id /\ \A j \in 1..(k - 1) : users[j].id # id
    IN  users[first].display_name

(* Variant: the loop goes on to the end of the inactive list. *)
SampleGoesOn_ToTheEnd(names, idx, inactive) == idx + 1 <= Len(inactive)

(* "while sample_count < 3 and i + 1 <= inactive_users_count" *)
SampleGoesOn(names, idx, inactive) == Len(names) < 3 /\ idx + 1 <= Len(inactive)

(* The text of a dashboard id: "dashboard_id: str".  Ids are numerals. *)
RECURSIVE Digits(_)
Digits(n) == IF n < 10 THEN <<n>> ELSE Append(Digits(n \div 10), n % 10)

(* s < t of two strings, from position k on. *)
RECURSIVE LexLess(_, _, _)
LexLess(s, t, k) ==
    IF k > Len(t) THEN FALSE
    ELSE IF k > Len(s) THEN TRUE
    ELSE IF s[k] # t[k] THEN s[k] < t[k]
    ELSE LexLess(s, t, k + 1)

(* Variant: the ids are compared as numbers. *)
StrLess_AsNumbers(a, b) == a < b

(* a < b of two dashboard ids, which are strings. *)
StrLess(a, b) == LexLess(Digits(a), Digits(b), 1)

(* sorted(abandoned_dashboards, key=lambda dashboard: dashboard.dashboard_id) *)
SortedById(seq) ==
    LET before(j, k) ==
            \/ StrLess(seq[j].dashboard_id, seq[k].dashboard_id)
            \/ j < k /\ ~StrLess(seq[k].dashboard_id, seq[j].dashboard_id)
    IN  [p \in 1..Len(seq) |->
            seq[CHOOSE k \in 1..Len(seq) :
                    Cardinality({j \in 1..Len(seq) : before(j, k)}) = p - 1]]

(* The join of get_dashboard_usage: the query count of one dashboard. *)
RECURSIVE DashCountFrom(_, _, _)
DashCountFrom(dashboard, rows, j) ==
    IF j > Len(rows) THEN 0
    ELSE (IF rows[j].dash_id = dashboard.id THEN rows[j].count ELSE 0)
         + DashCountFrom(dashboard, rows, j + 1)

(* "if dashboard.id and dashboard.title: output.append(...)" *)
JoinDashboards(dashboards, rows) ==
    LET named == SelectSeq(dashboards, LAMBDA d : d.id # 0 /\ d.title # 0)
    IN  [k \in 1..Len(named) |->
            [dashboard_id |-> named[k].id, dashboard_title |-> named[k].title,
             query_count |-> DashCountFrom(named[k], rows, 1)]]

(* The "abandoned" test of the abandoned_dashboards endpoint. *)
IsAbandoned(dashboard) == dashboard.query_count = 0

----------------------------------------------------------------------------
(* Grades (models.py).  A grade property reads the payload; with an empty  *)
(* ranked list the read of element 0 raises IndexError.                    *)

(* pct > n/100, for pct = num/den with den > 0 *)
PctAbove(pct, n) == pct.num * 100 > n * pct.den

UnusedExploreGrade(res) ==
    LET count_unused == Len(res.unused_explores)
    IN  IF count_unused > 5 \/ PctAbove(res.unused_percentage, 5) THEN "bad"
        ELSE IF count_unused > 2 \/ PctAbove(res.unused_percentage, 2) THEN "ok"
        ELSE "good"

(* Variant: thresholds that include 40 and 20. *)
SlowExploresGrade_Inclusive(res) ==
    IF res.slow_explores[1].avg_runtime >= 40 THEN "bad"
    ELSE IF res.slow_explores[1].avg_runtime >= 20 THEN "ok"
    ELSE "good"

SlowExploresGrade(res) ==
    IF res.slow_explores[1].avg_runtime > 40 THEN "bad"
    ELSE IF res.slow_explores[1].avg_runtime > 20 THEN "ok"
    ELSE "good"

OverusedQueryGrade(res) ==
    IF res.sample_overused_queries[1].database_run_count > 3360 THEN "bad"
    ELSE IF res.sample_overused_queries[1].database_run_count > 1680 THEN "ok"
    ELSE "good"

(* Variant: thresholds that include 0.3 and 0.1. *)
InactiveUserGrade_Inclusive(res) ==
    IF res.pct_inactive.num * 100 >= 30 * res.pct_inactive.den THEN "bad"
    ELSE IF res.pct_inactive.num * 100 >= 10 * res.pct_inactive.den THEN "ok"
    ELSE "good"

InactiveUserGrade(res) ==
    IF PctAbove(res.pct_inactive, 30) THEN "bad"
    ELSE IF PctAbove(res.pct_inactive, 10) THEN "ok"
    ELSE "good"

(* Variant: thresholds that exclude 750 and 300. *)
ExploreSizeGrade_Strict(res) ==
    IF res.large_explores[1].field_count > 750 THEN "bad"
    ELSE IF res.large_explores[1].field_count > 300 THEN "ok"
    ELSE "good"

ExploreSizeGrade(res) ==
    IF res.large_explores[1].field_count >= 750 THEN "bad"
    ELSE IF res.large_explores[1].field_count >= 300 THEN "ok"
    ELSE "good"

AbandonedDashboardGrade(res) ==
    IF PctAbove(res.pct_abandoned, 10) THEN "bad"
    ELSE IF PctAbove(res.pct_abandoned, 5) THEN "ok"
    ELSE "good"

(* Whether evaluating the grade property raises IndexError. *)
GradeRaises(r, res) ==
    CASE r = "slow_explores" -> Len(res.slow_explores) = 0
      [] r = "large_explores" -> Len(res.large_explores) = 0
      [] r = "overused_queries" -> Len(res.sample_overused_queries) = 0
      [] OTHER -> FALSE

(* Variant: a grade stored with a default instead of computed. *)
Grade_Stored(r, res) == "good"

Grade(r, res) ==
    CASE r = "unused_explores" -> UnusedExploreGrade(res)
      [] r = "slow_explores" -> SlowExploresGrade(res)
      [] r = "large_explores" -> ExploreSizeGrade(res)
      [] r = "inactive_users" -> InactiveUserGrade(res)
      [] r = "abandoned_dashboards" -> AbandonedDashboardGrade(res)
      [] r = "overused_queries" -> OverusedQueryGrade(res)

----------------------------------------------------------------------------
(* The invocation. *)

NoResponse == [none |-> TRUE]

Init ==
    /\ report \in Reports
    /\ upstream \in Upstreams(report)
    /\ pc = "Idle"
    /\ tries = 0
    /\ calls = <<>>
    /\ raised = <<>>
    /\ results = <<>>
    /\ offset = 0
    /\ explores = <<>>
    /\ all_users = <<>>
    /\ all_dashboards = <<>>
    /\ explore_fields = <<>>
    /\ gather_error = NoError
    /\ inactive_users = <<>>
    /\ inactive_user_percentage = NoResponse
    /\ sample_user_names = <<>>
    /\ i = 0
    /\ output = <<>>
    /\ response = NoResponse
    /\ serialized = NoResponse
    /\ failure = NoError

(* Where each report function starts, and where it goes after its history  *)
(* query and after its page loop.                                          *)
FirstPc(r) ==
    CASE r = "abandoned_dashboards" -> "dashboards"
      [] r = "large_explores" -> "models_page"
      [] OTHER -> "query"

AfterQuery(r) ==
    CASE r = "unused_explores" -> "models_page"
      [] r = "inactive_users" -> "users_page"
      [] r = "abandoned_dashboards" -> "Joining"
      [] OTHER -> "Computing"

AfterPages(r) ==
    CASE r = "large_explores" -> "gather"
      [] OTHER -> "Joining"

(* Variant: the retry goes on where the failed run stopped. *)
FreshLocals_Kept == UNCHANGED locals

(* Variant: the names sampled by a failed run stay in the list. *)
FreshLocals_NamesKept ==
    /\ results' = <<>>
    /\ offset' = 0
    /\ explores' = <<>>
    /\ all_users' = <<>>
    /\ all_dashboards' = <<>>
    /\ explore_fields' = <<>>
    /\ gather_error' = NoError
    /\ inactive_users' = <<>>
    /\ inactive_user_percentage' = NoResponse
    /\ UNCHANGED sample_user_names
    /\ i' = 0

(* Variant: the retry starts at offset 0 with the lists of the failed run. *)
FreshLocals_CollectedKept ==
    /\ results' = <<>>
    /\ offset' = 0
    /\ UNCHANGED <<explores, all_users, explore_fields>>
    /\ all_dashboards' = <<>>
    /\ gather_error' = NoError
    /\ inactive_users' = <<>>
    /\ inactive_user_percentage' = NoResponse
    /\ sample_user_names' = <<>>
    /\ i' = 0

(* A fresh call of the report function: its locals do not exist yet. *)
FreshLocals ==
    /\ results' = <<>>
    /\ offset' = 0
    /\ explores' = <<>>
    /\ all_users' = <<>>
    /\ all_dashboards' = <<>>
    /\ explore_fields' = <<>>
    /\ gather_error' = NoError
    /\ inactive_users' = <<>>
    /\ inactive_user_percentage' = NoResponse
    /\ sample_user_names' = <<>>
    /\ i' = 0

Call(op, arg) == [op |-> op, arg |-> arg, run |-> tries]

(* Variant: one run more than max_tries. *)
GivesUp_OneMore(e, n) == ~Retried(e) \/ n = max_tries + 1

(* backoff's "max_tries_exceeded = (tries == max_tries_value)" and the     *)
(* exception filter: whether exception e of run n leaves the decorator.    *)
GivesUp(e, n) == ~Retried(e) \/ n = max_tries

(* Variant: the exception of the first run is raised. *)
Reraised_First(e) == IF raised # <<>> THEN raised[1].error ELSE e

(* backoff's bare "raise" when it gives up: the exception just caught. *)
Reraised(e) == e

(* Variant: a budget for each remote call: the report fails when the same  *)
(* call has failed max_tries times.                                        *)
Raise_PerCall(e, c) ==
    /\ raised' = Append(raised, [error |-> e, op |-> c.op, arg |-> c.arg, run |-> tries])
    /\ IF \/ ~Retried(e)
          \/ Cardinality({k \in 1..Len(raised) :
                             raised[k].op = c.op /\ raised[k].arg = c.arg}) = max_tries - 1
       THEN pc' = "Failed" /\ failure' = Reraised(e)
       ELSE pc' = "backoff" /\ failure' = failure

(* Exception e leaves the report function, raised by call c. *)
Raise(e, c) ==
    /\ raised' = Append(raised, [error |-> e, op |-> c.op, arg |-> c.arg, run |-> tries])
    /\ IF GivesUp(e, tries)
       THEN pc' = "Failed" /\ failure' = Reraised(e)
       ELSE pc' = "backoff" /\ failure' = failure

(* The endpoint is requested: the decorated report function is called. *)
Invoke ==
    /\ pc = "Idle"
    /\ tries' = 1
    /\ pc' = FirstPc(report)
    /\ UNCHANGED <<report, upstream, calls, raised, locals, output, response,
                   serialized, failure>>

(* The backoff sleep is over: the report function is called again. *)
RetryAfterBackoff ==
    /\ pc = "backoff"
    /\ tries' = tries + 1
    /\ pc' = FirstPc(report)
    /\ FreshLocals
    /\ UNCHANGED <<report, upstream, calls, raised, output, response, serialized, failure>>

(* client.all_dashboards(fields="id,title") *)
AllDashboards ==
    /\ pc = "dashboards"
    /\ \E out \in CallOutcomes :
        LET c == Call("all_dashboards", 0)
        IN  /\ calls' = Append(calls, c)
            /\ IF out = "ok"
               THEN /\ all_dashboards' = upstream.dashboards
                    /\ pc' = "query"
                    /\ UNCHANGED <<raised, failure>>
               ELSE /\ Raise(SDKError(out), c)
                    /\ UNCHANGED all_dashboards
    /\ UNCHANGED <<report, upstream, tries, results, offset, explores, all_users,
                   explore_fields, gather_error, inactive_users,
                   inactive_user_percentage, sample_user_names, i,
                   output, response, serialized>>

(* client.run_inline_query(...) and json.loads of its answer. *)
RunInlineQuery ==
    /\ pc = "query"
    /\ \E out \in QueryOutcomes :
        LET c == Call("run_inline_query", 0)
        IN  /\ calls' = Append(calls, c)
            /\ IF out = "ok"
               THEN /\ results' = upstream.rows
                    /\ pc' = AfterQuery(report)
                    /\ output' = IF AfterQuery(report) = "Computing"
                                 THEN upstream.rows ELSE output
                    /\ UNCHANGED <<raised, failure>>
               ELSE /\ Raise(IF out = "malformed" THEN ValueError ELSE SDKError(out), c)
                    /\ UNCHANGED <<results, output>>
    /\ UNCHANGED <<report, upstream, tries, offset, explores, all_users, all_dashboards,
                   explore_fields, gather_error, inactive_users,
                   inactive_user_percentage, sample_user_names, i,
                   response, serialized>>

(* Variant: a failed page is skipped, the loop goes on with the next one. *)
PageFails_Skip(e, c) ==
    /\ pc' = pc
    /\ offset' = offset + PageSize
    /\ raised' = Append(raised, [error |-> e, op |-> c.op, arg |-> c.arg, run |-> tries])
    /\ UNCHANGED <<explores, all_users, failure>>

(* The page loops have no try/except: an exception of a page call leaves   *)
(* the loop and the report function.                                       *)
PageFails(e, c) ==
    /\ Raise(e, c)
    /\ UNCHANGED <<explores, all_users, offset>>

(* One turn of "while keep_going": client.all_lookml_models(limit=100,     *)
(* offset=offset), the loop over the page, the test of its length.         *)
AllLookmlModels ==
    /\ pc = "models_page"
    /\ \E out \in CallOutcomes :
        LET c == Call("all_lookml_models", offset)
        IN  /\ calls' = Append(calls, c)
            /\ IF out = "ok"
               THEN LET models_page == Page(upstream.models, offset, PageSize)
                    IN  /\ explores' = explores \o CollectPage(report, models_page)
                        /\ IF LastModelsPage(models_page)
                           THEN pc' = AfterPages(report) /\ offset' = offset
                           ELSE pc' = pc /\ offset' = offset + PageSize
                        /\ UNCHANGED <<raised, failure, all_users>>
               ELSE PageFails(SDKError(out), c)
    /\ UNCHANGED <<report, upstream, tries, results, all_dashboards,
                   explore_fields, gather_error, inactive_users,
                   inactive_user_percentage, sample_user_names, i,
                   output, response, serialized>>

(* One turn of the user loop: client.all_users(limit=100, offset=offset)   *)
(* and "if len(users) == 0".                                               *)
AllUsers ==
    /\ pc = "users_page"
    /\ \E out \in CallOutcomes :
        LET c == Call("all_users", offset)
        IN  /\ calls' = Append(calls, c)
            /\ IF out = "ok"
               THEN LET users == Page(upstream.users, offset, PageSize)
                    IN  /\ IF LastUsersPage(users)
                           THEN pc' = "Joining" /\ UNCHANGED <<all_users, offset>>
                           ELSE /\ pc' = pc
                                /\ all_users' = all_users \o users
                                /\ offset' = offset + PageSize
                        /\ UNCHANGED <<raised, failure, explores>>
               ELSE PageFails(SDKError(out), c)
    /\ UNCHANGED <<report, upstream, tries, results, all_dashboards,
                   explore_fields, gather_error, inactive_users,
                   inactive_user_percentage, sample_user_names, i,
                   output, response, serialized>>

(* get_inactive_user_percentage, "Filter out ..." and "Do some counting":  *)
(* the division raises ZeroDivisionError when no user is eligible.  With   *)
(* nobody to sample the function returns here.                             *)
CountInactiveUsers ==
    /\ pc = "Joining"
    /\ report = "inactive_users"
    /\ LET eligible == SelectSeq(all_users, Eligible)
           all_users_count == Len(eligible)
           inactive == InactiveUsers(all_users, results)
           inactive_users_count == Len(inactive)
           pct == [num |-> inactive_users_count, den |-> all_users_count]
       IN  IF DivisionRaises(all_users_count)
           THEN /\ Raise(ZeroDivisionError, Call("/", 0))
                /\ UNCHANGED <<all_users, inactive_users, inactive_user_percentage, output>>
           ELSE /\ all_users' = eligible
                /\ inactive_users' = inactive
                /\ inactive_user_percentage' = pct
                /\ IF SampleGoesOn(<<>>, 0, inactive)
                   THEN pc' = "sample" /\ UNCHANGED output
                   ELSE /\ pc' = "Computing"
                        /\ output' = [pct |-> pct, names |-> <<>>]
                /\ UNCHANGED <<raised, failure>>
    /\ UNCHANGED <<report, upstream, tries, calls, results, offset, explores,
                   all_dashboards, explore_fields, gather_error, sample_user_names, i,
                   response, serialized>>

(* One turn of the sample loop: client.user(id).display_name; the function *)
(* returns when the loop ends.                                             *)
User ==
    /\ pc = "sample"
    /\ \E out \in CallOutcomes :
        LET inactive_user_id == inactive_users[i + 1].id
            c == Call("user", inactive_user_id)
        IN  /\ calls' = Append(calls, c)
            /\ IF out = "ok"
               THEN LET display_name == DisplayName(upstream.users, inactive_user_id)
                        names == IF display_name # 0
                                 THEN Append(sample_user_names, display_name)
                                 ELSE sample_user_names
                    IN  /\ sample_user_names' = names
                        /\ i' = i + 1
                        /\ IF SampleGoesOn(names, i + 1, inactive_users)
                           THEN pc' = pc /\ UNCHANGED output
                           ELSE /\ pc' = "Computing"
                                /\ output' = [pct |-> inactive_user_percentage,
                                              names |-> names]
                        /\ UNCHANGED <<raised, failure>>
               ELSE /\ Raise(SDKError(out), c)
                    /\ UNCHANGED <<sample_user_names, i, output>>
    /\ UNCHANGED <<report, upstream, tries, results, offset, explores, all_users,
                   all_dashboards, explore_fields, gather_error, inactive_users,
                   inactive_user_percentage, response, serialized>>

(* The result slot of a gathered task that raised, or that ran after one   *)
(* had raised: gather hands out the first exception and no result.         *)
Unused == [unused |-> TRUE]

(* Variant: the list of results has the latest result first. *)
Gathered_LatestFirst(done, result) == <<result>> \o done

(* asyncio.gather: the result of a task takes the place of its task in the *)
(* list of results; the tasks are made, and run, in the order of explores. *)
Gathered(done, result) == Append(done, result)

(* asyncio.gather: the next task.  get_explore_fields has no await inside, *)
(* so a task runs its client.lookml_model_explore call to the end before   *)
(* the next one starts, and every task runs even after one has raised.     *)
LookmlModelExplore ==
    /\ pc = "gather"
    /\ Len(explore_fields) < Len(explores)
    /\ \E out \in CallOutcomes :
        LET explore == explores[Len(explore_fields) + 1]
        IN  /\ calls' = Append(calls, Call("lookml_model_explore",
                                           <<explore.model, explore.explore>>))
            /\ IF out = "ok" /\ gather_error = NoError
               THEN /\ explore_fields' =
                          Gathered(explore_fields,
                                   get_explore_field_counts(upstream.models,
                                                            explore.model, explore.explore))
                    /\ UNCHANGED gather_error
               ELSE /\ explore_fields' = Gathered(explore_fields, Unused)
                    /\ gather_error' = IF gather_error = NoError
                                       THEN SDKError(out) ELSE gather_error
    /\ UNCHANGED <<report, upstream, pc, tries, raised, results, offset, explores,
                   all_users, all_dashboards, inactive_users, inactive_user_percentage,
                   sample_user_names, i, output, response, serialized, failure>>

(* Variant: gather hands back the list also when a task has raised, as     *)
(* with return_exceptions=True.                                            *)
GatherRaises_Never(err) == FALSE

(* gather without return_exceptions: the first exception of a task is      *)
(* raised to the awaiting report function.                                 *)
GatherRaises(err) == err # NoError

(* The await of asyncio.gather resumes: the first exception, or the       *)
(* list of results in the order of the tasks.                              *)
GatherDone ==
    /\ pc = "gather"
    /\ Len(explore_fields) = Len(explores)
    /\ IF GatherRaises(gather_error)
       THEN /\ Raise(gather_error, Call("gather", 0))
            /\ UNCHANGED output
       ELSE /\ output' = explore_fields
            /\ pc' = "Computing"
            /\ UNCHANGED <<raised, failure>>
    /\ UNCHANGED <<report, upstream, tries, calls, locals, response, serialized>>

(* get_unused_explores: "Get the run count for each explore", return. *)
JoinUnusedExplores ==
    /\ pc = "Joining"
    /\ report = "unused_explores"
    /\ output' = JoinExplores(explores, results)
    /\ pc' = "Computing"
    /\ UNCHANGED <<report, upstream, tries, calls, raised, locals, response,
                   serialized, failure>>

(* get_dashboard_usage: the loop over all_dashboards, return. *)
JoinDashboardUsage ==
    /\ pc = "Joining"
    /\ report = "abandoned_dashboards"
    /\ output' = JoinDashboards(all_dashboards, results)
    /\ pc' = "Computing"
    /\ UNCHANGED <<report, upstream, tries, calls, raised, locals, response,
                   serialized, failure>>

(* An exception of the endpoint's own code: nothing catches it. *)
EndpointRaises(e) ==
    /\ pc' = "Failed"
    /\ failure' = e
    /\ raised' = Append(raised, [error |-> e, op |-> "endpoint", arg |-> 0, run |-> tries])
    /\ UNCHANGED <<response, serialized>>

(* The rest of the inactive_users endpoint. *)
inactive_users_endpoint ==
    /\ pc = "Computing"
    /\ report = "inactive_users"
    /\ response' = [pct_inactive |-> output.pct, sample_user_names |-> output.names]
    /\ pc' = "Grading"
    /\ UNCHANGED <<report, upstream, tries, calls, raised, locals, output,
                   serialized, failure>>

(* The rest of the slow_explores endpoint. *)
slow_explores ==
    /\ pc = "Computing"
    /\ report = "slow_explores"
    /\ response' =
          [slow_explores |->
              First3(Sorted(Map(output, ExplorePerformance), "avg_runtime", TRUE))]
    /\ pc' = "Grading"
    /\ UNCHANGED <<report, upstream, tries, calls, raised, locals, output,
                   serialized, failure>>

(* The rest of the large_explores endpoint; statistics.median raises       *)
(* StatisticsError for an empty list.                                      *)
large_explores ==
    /\ pc = "Computing"
    /\ report = "large_explores"
    /\ LET sizes == Map(output, ExploreSize)
       IN  IF Len(sizes) = 0
           THEN EndpointRaises(StatisticsError)
           ELSE /\ response' =
                     [large_explores |-> First3(Sorted(sizes, "field_count", TRUE)),
                      median_explore_size |-> MedianInt(sizes)]
                /\ pc' = "Grading"
                /\ UNCHANGED <<raised, serialized, failure>>
    /\ UNCHANGED <<report, upstream, tries, calls, locals, output>>

(* The rest of the unused_explores endpoint. *)
unused_explores ==
    /\ pc = "Computing"
    /\ report = "unused_explores"
    /\ LET exps == Map(output, ExploreQueries)
           count_explores == Len(exps)
           unused == SelectSeq(exps, IsUnused)
           count_unused_explores == Len(unused)
       IN  IF DivisionRaises(count_explores)
           THEN EndpointRaises(ZeroDivisionError)
           ELSE /\ response' =
                     [unused_explores |-> First3(Sorted(unused, "query_count", FALSE)),
                      unused_percentage |->
                          [num |-> count_unused_explores, den |-> count_explores]]
                /\ pc' = "Grading"
                /\ UNCHANGED <<raised, serialized, failure>>
    /\ UNCHANGED <<report, upstream, tries, calls, locals, output>>

(* The rest of the abandoned_dashboards endpoint. *)
abandoned_dashboards ==
    /\ pc = "Computing"
    /\ report = "abandoned_dashboards"
    /\ LET dashboards == output
           dashboard_count == Len(dashboards)
           abandoned == SelectSeq(dashboards, IsAbandoned)
           abandoned_dashboard_count == Len(abandoned)
       IN  IF DivisionRaises(dashboard_count)
           THEN EndpointRaises(ZeroDivisionError)
           ELSE /\ response' =
                     [pct_abandoned |->
                          [num |-> abandoned_dashboard_count, den |-> dashboard_count],
                      count_abandoned |-> abandoned_dashboard_count,
                      sample_abandoned_dashboards |-> First3(SortedById(abandoned))]
                /\ pc' = "Grading"
                /\ UNCHANGED <<raised, serialized, failure>>
    /\ UNCHANGED <<report, upstream, tries, calls, locals, output>>

(* The rest of the overused_queries endpoint. *)
overused_queries ==
    /\ pc = "Computing"
    /\ report = "overused_queries"
    /\ response' = [sample_overused_queries |-> Map(output, QueryUsage)]
    /\ pc' = "Grading"
    /\ UNCHANGED <<report, upstream, tries, calls, raised, locals, output,
                   serialized, failure>>

(* TestResult.dict(): the fields and the grade computed from them. *)
Serialize ==
    /\ pc = "Grading"
    /\ IF GradeRaises(report, response)
       THEN /\ pc' = "Failed"
            /\ failure' = IndexError
            /\ raised' = Append(raised, [error |-> IndexError, op |-> "grade", arg |-> 0,
                                         run |-> tries])
            /\ UNCHANGED serialized
       ELSE /\ serialized' = [payload |-> response, grade |-> Grade(report, response)]
            /\ pc' = "Done"
            /\ UNCHANGED <<raised, failure>>
    /\ UNCHANGED <<report, upstream, tries, calls, locals, output, response>>

Next ==
    \/ Invoke
    \/ RetryAfterBackoff
    \/ AllDashboards
    \/ RunInlineQuery
    \/ AllLookmlModels
    \/ AllUsers
    \/ CountInactiveUsers
    \/ User
    \/ LookmlModelExplore
    \/ GatherDone
    \/ JoinUnusedExplores
    \/ JoinDashboardUsage
    \/ inactive_users_endpoint
    \/ slow_explores
    \/ large_explores
    \/ unused_explores
    \/ abandoned_dashboards
    \/ overused_queries
    \/ Serialize

Spec == Init /\ [][Next]_vars

(* The invocation under the scheduling of the event loop: the one          *)
(* coroutine of a request goes on whenever it can, every remote call       *)
(* returns or raises, and every backoff sleep ends.                        *)
FairSpec == Spec /\ WF_vars(Next)

----------------------------------------------------------------------------
(* What the claims are stated with. *)

(* The calls of run r, and the arguments of its calls of one operation. *)
RunCalls(r) == SelectSeq(calls, LAMBDA c : c.run = r)

ArgsOf(op, r) ==
    LET cs == SelectSeq(calls, LAMBDA c : c.run = r /\ c.op = op)
    IN  [k \in 1..Len(cs) |-> cs[k].arg]

(* The offsets 0, P, 2P, ..., (n - 1) * P *)
Offsets(n) == [k \in 1..n |-> (k - 1) * PageSize]

(* The explores of a catalog that a report lists: both names present, and  *)
(* not hidden for the unused-explores report; in catalog order.            *)
Listed(r, models) ==
    {p \in UNION {{<<m, e>> : e \in 1..Len(models[m].explores)} : m \in 1..Len(models)} :
        /\ models[p[1]].name # 0
        /\ models[p[1]].explores[p[2]].name # 0
        /\ r = "unused_explores" => ~models[p[1]].explores[p[2]].hidden}

Earlier(p, q) == p[1] < q[1] \/ (p[1] = q[1] /\ p[2] < q[2])

ExpectedExplores(r, models) ==
    LET listed == Listed(r, models)
        ranked == {<<p, Cardinality({q \in listed : Earlier(q, p)})>> : p \in listed}
        at(k) == (CHOOSE pr \in ranked : pr[2] = k - 1)[1]
    IN  [k \in 1..Cardinality(listed) |->
            [model |-> models[at(k)[1]].name,
             explore |-> models[at(k)[1]].explores[at(k)[2]].name]]

ModelReports == {"unused_explores", "large_explores"}

PastPages == {"Joining", "gather", "Computing", "Grading", "Done"}

(* C1: short-page pagination of the model catalog.  While the loop runs it *)
(* has requested the offsets 0, P, ... below the current one and holds the *)
(* explores of the models before the current offset; when it has ended it  *)
(* has requested 0, P, ... up to the first page shorter than P and nothing *)
(* more, and holds the listed explores of all N models in upstream order,  *)
(* each once.                                                              *)
C1_ShortPagePagination ==
    report \in ModelReports =>
        /\ pc = "models_page" =>
              /\ ArgsOf("all_lookml_models", tries) = Offsets(offset \div PageSize)
              /\ offset <= Len(upstream.models)
              /\ explores = ExpectedExplores(report, SubSeq(upstream.models, 1, offset))
        /\ pc \in PastPages =>
              /\ ArgsOf("all_lookml_models", tries)
                    = Offsets(Len(upstream.models) \div PageSize + 1)
              /\ explores = ExpectedExplores(report, upstream.models)

(* A catalog of exactly P models has been paged through: two requests, the *)
(* second one answered by an empty page.                                   *)
C1_Witness ==
    /\ report \in ModelReports
    /\ pc \in PastPages
    /\ Len(upstream.models) = PageSize
    /\ ArgsOf("all_lookml_models", tries) = <<0, PageSize>>
    /\ Len(explores) > 2

(* C2: empty-page pagination of the user list.  While the loop runs it has *)
(* requested 0, P, ... below the current offset and holds the users before *)
(* it; it ends only on a page without items, so that after a last page     *)
(* shorter than P one more request is made; it then holds the N users in   *)
(* upstream order.                                                         *)
C2_EmptyPagePagination ==
    report = "inactive_users" =>
        /\ pc = "users_page" =>
              /\ ArgsOf("all_users", tries) = Offsets(offset \div PageSize)
              /\ all_users = SubSeq(upstream.users, 1, Min(offset, Len(upstream.users)))
        /\ pc = "Joining" =>
              /\ ArgsOf("all_users", tries)
                    = Offsets((Len(upstream.users) + PageSize - 1) \div PageSize + 1)
              /\ all_users = upstream.users

(* P + 1 users: the page at offset P holds one user and does not end the   *)
(* loop, the page at 2P is empty and does.                                 *)
C2_Witness ==
    /\ report = "inactive_users"
    /\ pc = "Joining"
    /\ Len(upstream.users) = PageSize + 1
    /\ ArgsOf("all_users", tries) = <<0, PageSize, 2 * PageSize>>
    /\ Len(all_users) = PageSize + 1

SingleCallReports == {"slow_explores", "overused_queries"}

SDKErrorsRaised == SelectSeq(raised, LAMBDA x : x.error.type = "SDKError")

(* C3: the retry bound of a report function with one remote call.  The     *)
(* call is attempted at most 3 times; when the first two attempts raise    *)
(* SDKError and the third answers, the function returns the rows of that   *)
(* answer; when the third raises too, the report has failed and no fourth  *)
(* attempt is made.  In every report, no remote call (operation and        *)
(* argument) is issued more than 3 times.                                  *)
C3_RetryBound ==
    /\ report \in SingleCallReports =>
        /\ Len(calls) <= max_tries
        /\ tries <= max_tries
        /\ (Len(SDKErrorsRaised) = 2 /\ Len(calls) = 3 /\ pc \notin {"Failed", "backoff"})
              => output = upstream.rows /\ pc \in {"Computing", "Grading", "Done"}
        /\ Len(SDKErrorsRaised) = 3
              => pc = "Failed" /\ failure.type = "SDKError" /\ Len(calls) = 3
    /\ \A c \in Range(calls) :
          Cardinality({k \in 1..Len(calls) : calls[k].op = c.op /\ calls[k].arg = c.arg})
              <= max_tries

(* Two transient failures, then the answer, and a result is delivered. *)
C3_Witness ==
    /\ report \in SingleCallReports
    /\ pc = "Done"
    /\ Len(calls) = 3
    /\ Len(raised) = 2
    /\ \A k \in 1..2 : raised[k].error = SDKError("transient")
    /\ Len(upstream.rows) > 0

(* An exception of a remote call that is not transient: SDKError for a     *)
(* fatal cause, or the ValueError of json.loads.                           *)
NonTransient(x) ==
    /\ x.op \in {"run_inline_query", "all_dashboards", "all_lookml_models", "all_users",
                 "user", "gather"}
    /\ x.error # SDKError("transient")

(* C4 as claimed: after a non-transient error of a remote call, no remote  *)
(* call is issued any more in the invocation.                              *)
C4_NonTransientNeverRetried ==
    \A k \in 1..Len(raised) :
        NonTransient(raised[k]) =>
            \A c \in Range(calls) : c.run <= raised[k].run

(* C4, amended: an exception that is not an SDKError ends the invocation   *)
(* at once, with that exception and without a further remote call.  An     *)
(* SDKError is retried whatever its cause: unless it was raised in the     *)
(* third run, the report function waits and is run again.                  *)
C4_OnlyNonSDKErrorsPropagateAtOnce ==
    \A k \in 1..Len(raised) :
        IF raised[k].error.type # "SDKError"
        THEN /\ k = Len(raised)
             /\ pc = "Failed"
             /\ failure = raised[k].error
             /\ \A c \in Range(calls) : c.run <= raised[k].run
        ELSE raised[k].run < max_tries =>
                \/ k = Len(raised) /\ pc = "backoff" /\ tries = raised[k].run
                \/ tries > raised[k].run

(* A fatal SDKError of the first run, and a remote call of the second. *)
C4_Witness ==
    /\ report \in {"abandoned_dashboards", "inactive_users"}
    /\ Len(raised) >= 1
    /\ raised[1].error = SDKError("fatal")
    /\ \E c \in Range(calls) : c.run = 2 /\ c.op = raised[1].op /\ c.arg = raised[1].arg

(* C5 as claimed: when every run has failed, the caller gets an error of   *)
(* the distinct kind UpstreamExhausted.                                    *)
C5_TaggedUpstreamExhausted ==
    (pc = "Failed" /\ Len(SDKErrorsRaised) = max_tries)
        => failure.type = "UpstreamExhausted"

(* C5, amended: when every run has failed, the caller gets the SDKError of *)
(* the last run itself, with its own cause and no other kind; an SDKError  *)
(* reaches the caller only in this way.                                    *)
C5_LastSDKErrorUnchanged ==
    /\ (pc = "Failed" /\ Len(SDKErrorsRaised) = max_tries)
          => failure = raised[Len(raised)].error /\ failure.type = "SDKError"
    /\ failure.type = "SDKError"
          => /\ pc = "Failed"
             /\ tries = max_tries
             /\ Len(raised) = max_tries
             /\ \A k \in 1..max_tries : raised[k].run = k /\ raised[k].error.type = "SDKError"

(* Three failed runs of get_unused_explores whose causes differ. *)
C5_Witness ==
    /\ report = "unused_explores"
    /\ pc = "Failed"
    /\ Len(raised) = max_tries
    /\ raised[1].error = SDKError("fatal")
    /\ failure = SDKError("transient")

(* Whether the call issued in run r for op and arg raised. *)
CallRaised(op, arg, r) ==
    \E x \in Range(raised) : x.op = op /\ x.arg = arg /\ x.run = r

(* C6 as claimed: a call that was answered is not issued again, so that    *)
(* after a failed page only that page is requested again.                  *)
C6_OnlyFailedPageRequestedAgain ==
    report \in ModelReports =>
        \A a, b \in 1..Len(calls) :
            (a < b /\ calls[a].op = calls[b].op /\ calls[a].arg = calls[b].arg
                /\ calls[a].op \in {"run_inline_query", "all_lookml_models"})
            => CallRaised(calls[a].op, calls[a].arg, calls[a].run)

(* The query and page calls of a run of the report function that meets no  *)
(* failure, in order.                                                      *)
FetchPlan(r, up) ==
    (IF r = "unused_explores" THEN <<[op |-> "run_inline_query", arg |-> 0]>> ELSE <<>>)
    \o [k \in 1..(Len(up.models) \div PageSize + 1) |->
            [op |-> "all_lookml_models", arg |-> (k - 1) * PageSize]]

FetchCalls(r) ==
    LET cs == SelectSeq(calls, LAMBDA c :
                  c.run = r /\ c.op \in {"run_inline_query", "all_lookml_models"})
    IN  [k \in 1..Len(cs) |-> [op |-> cs[k].op, arg |-> cs[k].arg]]

IsPrefix(p, q) == Len(p) <= Len(q) /\ p = SubSeq(q, 1, Len(p))

(* C6, amended: when a page call raises SDKError, the report function is   *)
(* run again as a whole: every run issues the usage query first and then   *)
(* the pages from offset 0 on, answered pages included; a run that failed  *)
(* at page k is followed by a run that starts again from the beginning.    *)
C6_WholeFunctionRunAgain ==
    report \in ModelReports =>
        /\ \A r \in 1..tries : IsPrefix(FetchCalls(r), FetchPlan(report, upstream))
        /\ \A r \in 1..(tries - 1) : FetchCalls(r) # <<>>
        /\ \A x \in Range(raised) :
              (x.op = "all_lookml_models" /\ x.run < max_tries)
                  => (pc = "backoff" /\ tries = x.run) \/ tries > x.run

(* The page at offset P failed in run 1; run 2 has issued the usage query  *)
(* and requested the page at offset 0 again.                               *)
C6_Witness ==
    /\ report = "unused_explores"
    /\ Len(raised) >= 1
    /\ raised[1].op = "all_lookml_models"
    /\ raised[1].arg = PageSize
    /\ raised[1].error = SDKError("transient")
    /\ FetchCalls(2) = <<[op |-> "run_inline_query", arg |-> 0],
                         [op |-> "all_lookml_models", arg |-> 0]>>

PageOps == {"all_lookml_models", "all_users"}

(* C7: no page is skipped.  A page call that raises in the last run fails  *)
(* the report, and a result is delivered only when it was computed from    *)
(* the items of every upstream page: the joined list holds every listed    *)
(* explore of the catalog, the field counts cover every listed explore,    *)
(* the eligible users are those of the whole user list.                    *)
C7_NoPageSkipped ==
    /\ \A x \in Range(raised) :
          (x.op \in PageOps /\ x.run = max_tries)
              => pc = "Failed" /\ response = NoResponse /\ serialized = NoResponse
    /\ (pc \in {"Computing", "Grading", "Done"} /\ report \in ModelReports)
          => [k \in 1..Len(output) |-> [model |-> output[k].model,
                                        explore |-> output[k].explore]]
                = ExpectedExplores(report, upstream.models)
    /\ (pc \in {"sample", "Computing", "Grading", "Done"} /\ report = "inactive_users")
          => /\ all_users = SelectSeq(upstream.users, Eligible)
             /\ inactive_user_percentage.den = Len(SelectSeq(upstream.users, Eligible))

(* A result computed from a catalog of more than one page, delivered after *)
(* a run in which the second page had failed.                              *)
C7_Witness ==
    /\ report \in ModelReports
    /\ pc = "Done"
    /\ Len(upstream.models) > PageSize
    /\ Len(raised) >= 1
    /\ raised[1].op = "all_lookml_models"
    /\ raised[1].arg = PageSize

(* The sum of the counts of the rows with index in S. *)
RECURSIVE SumCounts(_, _)
SumCounts(S, rows) ==
    IF S = {} THEN 0
    ELSE LET j == CHOOSE j \in S : TRUE
         IN  rows[j].count + SumCounts(S \ {j}, rows)

(* C8: the join.  Every collected explore is in the joined list, at its    *)
(* place, with the sum of the run counts of exactly the usage rows whose   *)
(* model and view both equal its key (0 without such a row); a dashboard's *)
(* query count is the sum over the rows of its id.                         *)
C8_JoinSumsExactMatches ==
    /\ (report = "unused_explores" /\ pc \in {"Computing", "Grading", "Done"}) =>
          /\ Len(output) = Len(explores)
          /\ \A k \in 1..Len(output) :
                /\ output[k].model = explores[k].model
                /\ output[k].explore = explores[k].explore
                /\ output[k].query_run_count =
                      SumCounts({j \in 1..Len(upstream.rows) :
                                    /\ upstream.rows[j].model = explores[k].model
                                    /\ upstream.rows[j].view = explores[k].explore},
                                upstream.rows)
    /\ (report = "abandoned_dashboards" /\ pc \in {"Computing", "Grading", "Done"}) =>
          \A k \in 1..Len(output) :
              output[k].query_count =
                  SumCounts({j \in 1..Len(upstream.rows) :
                                upstream.rows[j].dash_id = output[k].dashboard_id},
                            upstream.rows)

(* Explores (1,1) and (1,2) with the rows (1,1,5), (1,1,3), (1,2,0) and a  *)
(* row (2,1,50) that matches the first explore on the view only.           *)
C8_Witness ==
    /\ report = "unused_explores"
    /\ pc = "Computing"
    /\ upstream.rows = BaseUsageRows
    /\ output = <<[model |-> 1, explore |-> 1, query_run_count |-> 8],
                  [model |-> 1, explore |-> 2, query_run_count |-> 0]>>

PctReports == {"inactive_users", "unused_explores", "abandoned_dashboards"}

(* The percentage of a result. *)
Pct(r, res) ==
    CASE r = "inactive_users" -> res.pct_inactive
      [] r = "unused_explores" -> res.unused_percentage
      [] r = "abandoned_dashboards" -> res.pct_abandoned

(* The number of eligible users, listed explores, named dashboards of an   *)
(* instance: the total the report divides by.                              *)
Total(r, up) ==
    CASE r = "inactive_users" ->
            Cardinality({k \in 1..Len(up.users) :
                ~up.users[k].is_disabled /\ ~up.users[k].verified_looker_employee})
      [] r = "unused_explores" -> Cardinality(Listed(r, up.models))
      [] r = "abandoned_dashboards" ->
            Cardinality({k \in 1..Len(up.dashboards) :
                up.dashboards[k].id # 0 /\ up.dashboards[k].title # 0})

(* C9: the percentage guard.  With a total of 0 the division raises and    *)
(* the report ends with that error (Python's ZeroDivisionError) and        *)
(* without a result; a result is built and serialised only with a total    *)
(* above 0, which is the divisor of its percentage.                        *)
C9_ZeroTotalRaises ==
    report \in PctReports =>
        /\ pc \in {"sample", "Grading", "Done"} =>
              Total(report, upstream) > 0
        /\ pc \in {"Grading", "Done"} =>
              Pct(report, response).den = Total(report, upstream)
        /\ serialized # NoResponse => Pct(report, serialized.payload).den > 0
        /\ failure = ZeroDivisionError =>
              /\ pc = "Failed"
              /\ Total(report, upstream) = 0
              /\ response = NoResponse
              /\ serialized = NoResponse
        /\ (Total(report, upstream) = 0 /\ pc = "Failed" /\ Len(SDKErrorsRaised) < max_tries
                /\ failure # ValueError)
              => failure = ZeroDivisionError

(* Users exist but none is eligible: the report has ended with the         *)
(* division error, after the pages were fetched.                           *)
C9_Witness ==
    /\ report = "inactive_users"
    /\ Len(upstream.users) > 0
    /\ pc = "Failed"
    /\ failure = ZeroDivisionError
    /\ response = NoResponse

(* src/rmli/views.py, get_inactive_user_percentage: the percentage as      *)
(* (all_users_count - active_users_count) / all_users_count.               *)
get_inactive_user_percentage_v0(users, rows) ==
    LET eligible == SelectSeq(users, Eligible)
        all_users_count == Len(eligible)
        active_users_count ==
            Len(SelectSeq(eligible, LAMBDA user : user.id \in ActiveIds(rows)))
    IN  [num |-> all_users_count - active_users_count, den |-> all_users_count]

(* C10: every percentage of a result lies in [0, 1]: its dividend is at    *)
(* least 0 and at most its divisor, which is above 0.                      *)
C10_PercentageInUnitRange ==
    /\ (report \in PctReports /\ pc \in {"Grading", "Done"}) =>
          /\ Pct(report, response).den > 0
          /\ 0 <= Pct(report, response).num
          /\ Pct(report, response).num <= Pct(report, response).den
    /\ (report = "inactive_users" /\ pc \in {"sample", "Computing"}) =>
          /\ 0 <= inactive_user_percentage.num
          /\ inactive_user_percentage.num <= inactive_user_percentage.den
          /\ LET v0 == get_inactive_user_percentage_v0(upstream.users, results)
             IN  v0.den > 0 /\ 0 <= v0.num /\ v0.num <= v0.den

(* A result whose percentage is strictly between 0 and 1. *)
C10_Witness ==
    /\ report = "inactive_users"
    /\ pc = "Done"
    /\ 0 < serialized.payload.pct_inactive.num
    /\ serialized.payload.pct_inactive.num < serialized.payload.pct_inactive.den

----------------------------------------------------------------------------
(* The field counts a large-explores result was computed from. *)
FieldCounts == [k \in 1..Len(output) |-> output[k].field_count]

(* The k-th smallest of a non-empty list of numbers. *)
KthSmallest(values, k) ==
    CHOOSE v \in Range(values) :
        /\ Cardinality({j \in 1..Len(values) : values[j] < v}) < k
        /\ Cardinality({j \in 1..Len(values) : values[j] <= v}) >= k

(* C11 as claimed: the median is the middle element of an odd-length list  *)
(* and the average of the two middle elements of an even-length one.       *)
C11_StandardMedian ==
    (report = "large_explores" /\ pc \in {"Grading", "Done"}) =>
        LET n == Len(FieldCounts)
            m == response.median_explore_size
        IN  IF n % 2 = 1 THEN m = KthSmallest(FieldCounts, (n + 1) \div 2)
            ELSE 2 * m = KthSmallest(FieldCounts, n \div 2)
                         + KthSmallest(FieldCounts, n \div 2 + 1)

(* C11: median_explore_size is the median of the field counts of all       *)
(* listed explores cut to an integer: the middle element of an odd-length  *)
(* list, and the average of the two middle elements of an even-length one  *)
(* rounded down (299 for [299, 300]).                                      *)
C11_MedianCutToInteger ==
    (report = "large_explores" /\ pc \in {"Grading", "Done"}) =>
        LET n == Len(FieldCounts)
            m == response.median_explore_size
        IN  /\ n = Cardinality(Listed(report, upstream.models))
            /\ n > 0
            /\ IF n % 2 = 1 THEN m = KthSmallest(FieldCounts, (n + 1) \div 2)
               ELSE LET sum == KthSmallest(FieldCounts, n \div 2)
                               + KthSmallest(FieldCounts, n \div 2 + 1)
                    IN  2 * m <= sum /\ sum < 2 * m + 2

(* Two explores with 299 and 300 fields: the median delivered is 299. *)
C11_Witness ==
    /\ report = "large_explores"
    /\ pc = "Done"
    /\ Len(output) = 2
    /\ {output[1].field_count, output[2].field_count} = {299, 300}
    /\ serialized.payload.median_explore_size = 299

----------------------------------------------------------------------------
RankedReports == {"slow_explores", "large_explores"}

(* The ranked list of a result, and the sort key of the entries it was     *)
(* taken from, in the order the report function returned them.             *)
Ranked(r, res) ==
    IF r = "slow_explores" THEN res.slow_explores ELSE res.large_explores

RankKey(r) == IF r = "slow_explores" THEN "avg_runtime" ELSE "field_count"

SameEntry(r, entry, d) ==
    /\ entry[RankKey(r)] = d[RankKey(r)]
    /\ entry.model_name = d.model
    /\ entry.explore_name = (IF r = "slow_explores" THEN d.view ELSE d.explore)

(* C12: the ranked list holds min(3, n) of the n produced entries, taken   *)
(* at distinct places f[1], f[2], ... of the produced list, in             *)
(* non-increasing key order; of two entries with equal keys the one        *)
(* produced first comes first, and every entry left out has a smaller key  *)
(* than each one taken, or an equal key and a later place.                 *)
C12_TopThreeStable ==
    (report \in RankedReports /\ pc \in {"Grading", "Done"}) =>
        LET top == Ranked(report, response)
            key == RankKey(report)
            n == Len(output)
        IN  /\ Len(top) = Min(3, n)
            /\ \E f \in [1..Len(top) -> 1..n] :
                  /\ \A a, b \in 1..Len(top) : a < b =>
                        /\ f[a] # f[b]
                        /\ top[a][key] >= top[b][key]
                        /\ top[a][key] = top[b][key] => f[a] < f[b]
                  /\ \A a \in 1..Len(top) : SameEntry(report, top[a], output[f[a]])
                  /\ \A j \in 1..n : (\A a \in 1..Len(top) : f[a] # j) =>
                        \A a \in 1..Len(top) :
                            \/ output[j][key] < top[a][key]
                            \/ output[j][key] = top[a][key] /\ f[a] < j

(* Five rows with the runtimes 20, 40, 40, 41, 40: the list is the row of  *)
(* 41 and the first two rows of 40, the third row of 40 is left out.       *)
C12_Witness ==
    /\ report = "slow_explores"
    /\ pc = "Done"
    /\ upstream.rows = BaseRuntimeRows
    /\ serialized.payload.slow_explores =
          <<[model_name |-> 2, explore_name |-> 2, avg_runtime |-> 41, max_runtime |-> 45],
            [model_name |-> 1, explore_name |-> 2, avg_runtime |-> 40, max_runtime |-> 60],
            [model_name |-> 2, explore_name |-> 1, avg_runtime |-> 40, max_runtime |-> 41]>>

----------------------------------------------------------------------------
(* C13 as claimed: the explores counted as unused are exactly the joined   *)
(* explores with a run count below 50 (49 is unused, 50 is not).           *)
C13_UnusedBelowFifty ==
    (report = "unused_explores" /\ pc \in {"Grading", "Done"}) =>
        response.unused_percentage.num =
            Cardinality({k \in 1..Len(output) : output[k].query_run_count < 50})

----------------------------------------------------------------------------
(* The places <<m, e>> of the named explores of a catalog, and the keys of *)
(* those flagged hidden.                                                   *)
NamedPlaces(models) ==
    {p \in UNION {{<<m, e>> : e \in 1..Len(models[m].explores)} : m \in 1..Len(models)} :
        models[p[1]].name # 0 /\ models[p[1]].explores[p[2]].name # 0}

HiddenKeys(models) ==
    {<<models[p[1]].name, models[p[1]].explores[p[2]].name>> :
        p \in {q \in NamedPlaces(models) : models[q[1]].explores[q[2]].hidden}}

(* C14: a hidden explore is not among the explores the unused-explores     *)
(* report collects, joins or returns, and the divisor of unused_percentage *)
(* counts the named explores that are not hidden.                          *)
C14_HiddenExploresExcluded ==
    report = "unused_explores" =>
        /\ \A k \in 1..Len(explores) :
              <<explores[k].model, explores[k].explore>> \notin HiddenKeys(upstream.models)
        /\ pc \in {"Computing", "Grading", "Done"} =>
              \A k \in 1..Len(output) :
                  <<output[k].model, output[k].explore>> \notin HiddenKeys(upstream.models)
        /\ pc \in {"Grading", "Done"} =>
              /\ \A k \in 1..Len(response.unused_explores) :
                    <<response.unused_explores[k].model_name,
                      response.unused_explores[k].explore_name>>
                        \notin HiddenKeys(upstream.models)
              /\ response.unused_percentage.den =
                    Cardinality({p \in NamedPlaces(upstream.models) :
                                    ~upstream.models[p[1]].explores[p[2]].hidden})
              /\ response.unused_percentage.num <= response.unused_percentage.den

(* A catalog with the visible explore (1,1) and the hidden explore (1,2),  *)
(* which has no runs: the result counts one explore, none of them unused.  *)
C14_Witness ==
    /\ report = "unused_explores"
    /\ pc = "Done"
    /\ <<1, 2>> \in HiddenKeys(upstream.models)
    /\ upstream.rows = BaseUsageRows
    /\ serialized.payload.unused_percentage = [num |-> 0, den |-> 1]
    /\ serialized.payload.unused_explores = <<>>

----------------------------------------------------------------------------
(* C15 as claimed: the grade follows the number of unused explores of the  *)
(* catalog and the unused percentage: bad above 5 explores or above 0.05,  *)
(* else ok above 2 explores or above 0.02, else good.                      *)
C15_GradeByUnusedCount ==
    (report = "unused_explores" /\ pc = "Done") =>
        LET count == Cardinality({k \in 1..Len(output) : output[k].query_run_count = 0})
            pct == serialized.payload.unused_percentage
        IN  serialized.grade =
                IF count > 5 \/ pct.num * 100 > 5 * pct.den THEN "bad"
                ELSE IF count > 2 \/ pct.num * 100 > 2 * pct.den THEN "ok"
                ELSE "good"

----------------------------------------------------------------------------
(* The largest number of a non-empty set of numbers. *)
Largest(S) == CHOOSE v \in S : \A w \in S : w <= v

(* C16: the slow-explores grade follows the largest avg_runtime of the     *)
(* fetched rows alone: bad above 40, ok above 20 up to 40, good up to 20.  *)
C16_SlowGradeByLargestRuntime ==
    (report = "slow_explores" /\ pc = "Done") =>
        /\ Len(upstream.rows) > 0
        /\ LET top == Largest({upstream.rows[k].avg_runtime : k \in 1..Len(upstream.rows)})
           IN  /\ serialized.grade = "bad" <=> top > 40
               /\ serialized.grade = "ok" <=> (top > 20 /\ top <= 40)
               /\ serialized.grade = "good" <=> top <= 20

(* Rows of 20 and then 40 seconds: the grade is ok. *)
C16_Witness ==
    /\ report = "slow_explores"
    /\ pc = "Done"
    /\ Len(upstream.rows) = 2
    /\ upstream.rows[1].avg_runtime = 20
    /\ upstream.rows[2].avg_runtime = 40
    /\ serialized.grade = "ok"

(* The number of fields of the explore at a place of the catalog. *)
FieldsAt(models, p) ==
    models[p[1]].explores[p[2]].dimensions + models[p[1]].explores[p[2]].measures

(* C17: the large-explores grade follows the largest field count of the    *)
(* named explores of the catalog alone: bad from 750, ok from 300 to 749,   *)
(* good below 300.                                                          *)
C17_LargeGradeByLargestFieldCount ==
    (report = "large_explores" /\ pc = "Done") =>
        /\ NamedPlaces(upstream.models) # {}
        /\ LET top == Largest({FieldsAt(upstream.models, p) :
                                  p \in NamedPlaces(upstream.models)})
           IN  /\ serialized.grade = "bad" <=> top >= 750
               /\ serialized.grade = "ok" <=> (top >= 300 /\ top < 750)
               /\ serialized.grade = "good" <=> top < 300

(* A catalog whose largest explore, the second one, has 750 fields. *)
C17_Witness ==
    /\ report = "large_explores"
    /\ pc = "Done"
    /\ Len(output) >= 2
    /\ output[1].field_count = 299
    /\ output[2].field_count = 750
    /\ serialized.grade = "bad"

----------------------------------------------------------------------------
(* C18 as claimed: the overused-queries grade follows the largest database *)
(* run count of the returned rows, in whatever order they were delivered:  *)
(* bad above 3360, ok above 1680, good otherwise.                          *)
C18_GradeByLargestRunCount ==
    (report = "overused_queries" /\ pc = "Done") =>
        LET top == Largest({serialized.payload.sample_overused_queries[k].database_run_count :
                               k \in 1..Len(serialized.payload.sample_overused_queries)})
        IN  serialized.grade =
                IF top > 3360 THEN "bad" ELSE IF top > 1680 THEN "ok" ELSE "good"

----------------------------------------------------------------------------
(* C19: the grades of the two percentage reports, with the thresholds as   *)
(* fractions: inactive users bad above 3/10, ok above 1/10 up to 3/10,     *)
(* good up to 1/10; abandoned dashboards bad above 1/10, ok above 1/20 up  *)
(* to 1/10, good up to 1/20.                                               *)
C19_StrictPercentageThresholds ==
    /\ (report = "inactive_users" /\ pc = "Done") =>
          LET p == serialized.payload.pct_inactive
          IN  /\ serialized.grade = "bad" <=> 10 * p.num > 3 * p.den
              /\ serialized.grade = "ok" <=> (10 * p.num > p.den /\ 10 * p.num <= 3 * p.den)
              /\ serialized.grade = "good" <=> 10 * p.num <= p.den
    /\ (report = "abandoned_dashboards" /\ pc = "Done") =>
          LET p == serialized.payload.pct_abandoned
          IN  /\ serialized.grade = "bad" <=> 10 * p.num > p.den
              /\ serialized.grade = "ok" <=> (20 * p.num > p.den /\ 10 * p.num <= p.den)
              /\ serialized.grade = "good" <=> 20 * p.num <= p.den

(* Three of ten eligible users are inactive: exactly 0.3, graded ok. *)
C19_Witness ==
    /\ report = "inactive_users"
    /\ pc = "Done"
    /\ serialized.payload.pct_inactive = [num |-> 3, den |-> 10]
    /\ serialized.grade = "ok"

----------------------------------------------------------------------------
(* The threshold table, read on the fields of a payload: the row of the    *)
(* report, its "bad" rule first.                                           *)
TableBad(r, p) ==
    CASE r = "inactive_users" -> 10 * p.pct_inactive.num > 3 * p.pct_inactive.den
      [] r = "slow_explores" -> p.slow_explores[1].avg_runtime > 40
      [] r = "large_explores" -> p.large_explores[1].field_count >= 750
      [] r = "unused_explores" ->
            \/ Len(p.unused_explores) > 5
            \/ 20 * p.unused_percentage.num > p.unused_percentage.den
      [] r = "abandoned_dashboards" -> 10 * p.pct_abandoned.num > p.pct_abandoned.den
      [] r = "overused_queries" -> p.sample_overused_queries[1].database_run_count > 3360

TableOk(r, p) ==
    CASE r = "inactive_users" -> 10 * p.pct_inactive.num > p.pct_inactive.den
      [] r = "slow_explores" -> p.slow_explores[1].avg_runtime > 20
      [] r = "large_explores" -> p.large_explores[1].field_count >= 300
      [] r = "unused_explores" ->
            \/ Len(p.unused_explores) > 2
            \/ 50 * p.unused_percentage.num > p.unused_percentage.den
      [] r = "abandoned_dashboards" -> 20 * p.pct_abandoned.num > p.pct_abandoned.den
      [] r = "overused_queries" -> p.sample_overused_queries[1].database_run_count > 1680

(* C20: the grade of a serialised result is bad, ok or good and is what    *)
(* the threshold table gives on the payload beside it; the payload is the  *)
(* result object, which has no grade field of its own.                     *)
C20_GradeDerivedFromPayload ==
    /\ serialized # NoResponse =>
          /\ pc = "Done"
          /\ serialized.payload = response
          /\ "grade" \notin DOMAIN serialized.payload
          /\ serialized.grade \in {"bad", "ok", "good"}
          /\ serialized.grade = "bad" <=> TableBad(report, serialized.payload)
          /\ serialized.grade = "ok" <=>
                (~TableBad(report, serialized.payload) /\ TableOk(report, serialized.payload))
          /\ serialized.grade = "good" <=> ~TableOk(report, serialized.payload)
    /\ pc = "Done" => serialized # NoResponse
    /\ response # NoResponse => "grade" \notin DOMAIN response

(* A serialised abandoned-dashboards result graded bad. *)
C20_Witness ==
    /\ report = "abandoned_dashboards"
    /\ pc = "Done"
    /\ serialized.grade = "bad"
    /\ 10 * serialized.payload.pct_abandoned.num > serialized.payload.pct_abandoned.den

----------------------------------------------------------------------------
(* The inactive users of an instance, in the order of its user list, and   *)
(* the places in that list of those with a display name.                   *)
InactiveOf(up) ==
    SelectSeq(up.users,
              LAMBDA u : /\ ~u.is_disabled
                         /\ ~u.verified_looker_employee
                         /\ \A j \in 1..Len(up.rows) : up.rows[j].user_id # u.id)

NamedAmong(inactive) == {k \in 1..Len(inactive) : inactive[k].display_name # 0}

(* The place of the n-th member of a set of places. *)
NthOf(S, n) == CHOOSE k \in S : Cardinality({j \in S : j <= k}) = n

(* C21: the sample holds the display names of the first min(3, m) of the m *)
(* inactive users that have one, in the order of the inactive list; the    *)
(* lookups of the run are those of the inactive users up to the one that   *)
(* gave the third name (of all of them when fewer than 3 have a name),     *)
(* each once and in order, so none follows the third name.                 *)
C21_SampleFirstThreeNamed ==
    report = "inactive_users" =>
        LET inactive == InactiveOf(upstream)
            named == NamedAmong(inactive)
            taken == Min(3, Cardinality(named))
            last == IF Cardinality(named) >= 3 THEN NthOf(named, 3) ELSE Len(inactive)
            lookups == ArgsOf("user", tries)
        IN  /\ pc = "sample" =>
                  /\ Len(sample_user_names) < 3
                  /\ Len(lookups) < last
                  /\ lookups = [k \in 1..Len(lookups) |-> inactive[k].id]
            /\ pc \in {"Computing", "Grading", "Done"} =>
                  /\ output.names = [k \in 1..taken |-> inactive[NthOf(named, k)].display_name]
                  /\ lookups = [k \in 1..last |-> inactive[k].id]
            /\ pc \in {"Grading", "Done"} => response.sample_user_names = output.names

(* Ten inactive users 1..10 of which user 2 has no name: the names of 1,   *)
(* 3 and 4 after the four lookups of 1, 2, 3 and 4.                        *)
C21_Witness ==
    /\ report = "inactive_users"
    /\ pc = "Done"
    /\ Len(InactiveOf(upstream)) = 10
    /\ serialized.payload.sample_user_names = <<1, 3, 4>>
    /\ ArgsOf("user", tries) = <<1, 2, 3, 4>>

----------------------------------------------------------------------------
(* The abandoned dashboards of the joined list, in the produced order. *)
Abandoned == SelectSeq(output, LAMBDA d : d.query_count = 0)

(* The order of two ids as strings: a is a proper beginning of b, or at    *)
(* the first place where they differ a has the smaller character.          *)
TextBefore(a, b) ==
    LET s == Digits(a)
        t == Digits(b)
    IN  \E k \in 1..Len(t) :
            /\ k - 1 <= Len(s)
            /\ SubSeq(s, 1, k - 1) = SubSeq(t, 1, k - 1)
            /\ (k > Len(s) \/ s[k] < t[k])

(* C22 as stated: the sample is the first 3 abandoned dashboards in the    *)
(* order in which the join produced them.                                  *)
C22_SampleInProducedOrder ==
    (report = "abandoned_dashboards" /\ pc \in {"Grading", "Done"}) =>
        response.sample_abandoned_dashboards = First3(Abandoned)

(* C22: the sample is the first 3 abandoned dashboards in ascending order  *)
(* of dashboard id, the ids compared as strings: it has min(3, n) of the n *)
(* abandoned dashboards, in ascending order, and every abandoned           *)
(* dashboard left out has an id after all of the sample's.                 *)
C22_SampleInIdOrder ==
    (report = "abandoned_dashboards" /\ pc \in {"Grading", "Done"}) =>
        LET sample == response.sample_abandoned_dashboards
        IN  /\ Len(sample) = Min(3, Len(Abandoned))
            /\ Range(sample) \subseteq Range(Abandoned)
            /\ \A k \in 1..(Len(sample) - 1) :
                   TextBefore(sample[k].dashboard_id, sample[k + 1].dashboard_id)
            /\ \A d \in Range(Abandoned) \ Range(sample) :
                   \A k \in 1..Len(sample) :
                       TextBefore(sample[k].dashboard_id, d.dashboard_id)

(* Dashboards 1, 2, 10, 11, 12 abandoned: the sample is 1, 10, 11. *)
C22_Witness ==
    /\ report = "abandoned_dashboards"
    /\ pc = "Done"
    /\ Len(Abandoned) = 5
    /\ [k \in 1..3 |-> serialized.payload.sample_abandoned_dashboards[k].dashboard_id]
           = <<1, 10, 11>>

----------------------------------------------------------------------------
(* The places of the catalog that hold an explore of the given names. *)
PlacesOf(models, model, explore) ==
    {p \in NamedPlaces(models) :
        models[p[1]].name = model /\ models[p[1]].explores[p[2]].name = explore}

(* C23: the k-th result of the fan-out names the model and the explore of  *)
(* the k-th collected explore and carries the number of fields of the      *)
(* explore of those names in the catalog.  The tasks of the fan-out end in *)
(* the order in which they were made, which is the one order there is.     *)
C23_ResultsInTaskOrder ==
    (report = "large_explores" /\ pc = "Computing") =>
        /\ Len(output) = Len(explores)
        /\ \A k \in 1..Len(explores) :
               /\ output[k].model = explores[k].model
               /\ output[k].explore = explores[k].explore
               /\ PlacesOf(upstream.models, explores[k].model, explores[k].explore) # {}
               /\ \A p \in PlacesOf(upstream.models, explores[k].model, explores[k].explore) :
                      output[k].field_count = FieldsAt(upstream.models, p)

(* A fan-out over three explores with three different field counts. *)
C23_Witness ==
    /\ report = "large_explores"
    /\ pc = "Computing"
    /\ Len(explores) = 3
    /\ Cardinality({output[k].field_count : k \in 1..Len(output)}) = 3

----------------------------------------------------------------------------
(* C24: once a lookup of a fan-out has failed, the run goes on to raise:   *)
(* it hands no list of results to the endpoint, whatever the other lookups *)
(* gave.  A run that does hand one over has made one lookup for each       *)
(* collected explore, all of them successful, and the list holds the       *)
(* result of each.                                                         *)
C24_FanOutAllOrNothing ==
    /\ [](report = "large_explores" /\ pc \in {"Computing", "Grading", "Done"} =>
              /\ gather_error = NoError
              /\ Len(ArgsOf("lookml_model_explore", tries)) = Len(explores)
              /\ Len(output) = Len(explores)
              /\ \A k \in 1..Len(output) : output[k] # Unused)
    /\ [][(pc = "gather" /\ gather_error # NoError) =>
              /\ pc' \in {"gather", "backoff", "Failed"}
              /\ UNCHANGED <<output, response, serialized>>]_vars

(* All lookups of a fan-out over several explores have ended, the first    *)
(* with a result and a later one with an SDK error.                        *)
C24_Witness ==
    /\ report = "large_explores"
    /\ pc = "gather"
    /\ Len(explores) >= 2
    /\ Len(explore_fields) = Len(explores)
    /\ explore_fields[1] # Unused
    /\ gather_error # NoError

----------------------------------------------------------------------------
(* The data of an upstream instance, without the faults that its calls can *)
(* run into.                                                               *)
DataOf(up) ==
    [models |-> up.models, rows |-> up.rows, users |-> up.users,
     dashboards |-> up.dashboards]

(* The grade that the threshold table gives for a payload. *)
TableGrade(r, payload) ==
    IF TableBad(r, payload) THEN "bad" ELSE IF TableOk(r, payload) THEN "ok" ELSE "good"

(* The payload of a report as a function of the data alone. *)
PayloadOf(r, data) ==
    CASE r = "unused_explores" ->
            LET listed == ExpectedExplores(r, data.models)
                runs(e) == SumCounts({j \in 1..Len(data.rows) :
                                         /\ data.rows[j].model = e.model
                                         /\ data.rows[j].view = e.explore}, data.rows)
                unused == SelectSeq(listed, LAMBDA e : runs(e) = 0)
            IN  [unused_explores |->
                     [k \in 1..Min(3, Len(unused)) |->
                         [model_name |-> unused[k].model,
                          explore_name |-> unused[k].explore, query_count |-> 0]],
                 unused_percentage |-> [num |-> Len(unused), den |-> Len(listed)]]
      [] r = "inactive_users" ->
            LET inactive == InactiveOf(data)
                named == NamedAmong(inactive)
            IN  [pct_inactive |-> [num |-> Len(inactive), den |-> Total(r, data)],
                 sample_user_names |->
                     [k \in 1..Min(3, Cardinality(named)) |->
                         inactive[NthOf(named, k)].display_name]]

(* C25: the result a report returns is a function of the report and of the *)
(* upstream data: payload and grade are the same in every invocation on    *)
(* the same data, whatever calls failed and however many runs it took.     *)
C25_ResultFunctionOfData ==
    (report \in {"unused_explores", "inactive_users"} /\ pc = "Done") =>
        LET payload == PayloadOf(report, DataOf(upstream))
        IN  serialized = [payload |-> payload, grade |-> TableGrade(report, payload)]

(* A result returned by the third run, after two runs that failed, the     *)
(* second of them in the sampling loop with a name already taken.          *)
C25_Witness ==
    /\ report = "inactive_users"
    /\ pc = "Done"
    /\ tries = 3
    /\ raised[2].op = "user"
    /\ Len(ArgsOf("user", 2)) >= 2
    /\ Len(serialized.payload.sample_user_names) >= 2

----------------------------------------------------------------------------
Ended == {"Done", "Failed"}

(* The number of items of the collection that a report pages through. *)
CollectionSize(r, up) ==
    CASE r \in ModelReports -> Len(up.models)
      [] r = "inactive_users" -> Len(up.users)
      [] OTHER -> 0

(* C26: an invocation that has started ends in Done or in Failed.  It runs *)
(* the report function at most max_tries times, and a page loop of a run   *)
(* does not go beyond the page after the end of the collection.  From Done *)
(* or Failed on nothing moves: no further remote call is made.             *)
C26_InvocationEnds ==
    /\ (pc # "Idle") ~> (pc \in Ended)
    /\ [](/\ tries <= max_tries
          /\ offset < CollectionSize(report, upstream) + PageSize)
    /\ [][(pc \in Ended) => UNCHANGED <<pc, calls>>]_vars

(* An invocation that ended with a result in its third run, after paging   *)
(* through more than one page.                                             *)
C26_Witness ==
    /\ pc = "Done"
    /\ tries = max_tries
    /\ PageSize \in Range(ArgsOf("all_users", tries))

----------------------------------------------------------------------------
(* The reports whose grade reads the first element of a ranked list, and   *)
(* that list in a result.                                                  *)
TopOneReports == {"slow_explores", "large_explores", "overused_queries"}

RankedList(r, res) ==
    CASE r = "slow_explores" -> res.slow_explores
      [] r = "large_explores" -> res.large_explores
      [] r = "overused_queries" -> res.sample_overused_queries

(* C27: no result with an empty ranked list is built by an endpoint, and   *)
(* a report that fails for want of an element fails in the endpoint's      *)
(* computation, before a result exists.                                    *)
C27_NoResultWithEmptyRankedList ==
    report \in TopOneReports =>
        /\ response # NoResponse => Len(RankedList(report, response)) > 0
        /\ (pc = "Failed" /\ failure \in {IndexError, StatisticsError}) =>
               /\ response = NoResponse
               /\ raised[Len(raised)].op = "endpoint"

----------------------------------------------------------------------------
(* The lookups that the fan-out of the current run has started, and those  *)
(* that have ended, with a result or with an exception.                    *)
LookupsStarted == Len(ArgsOf("lookml_model_explore", tries))

LookupsEnded == Len(explore_fields)

(* C28: the lookups of a fan-out overlap, every task being suspended at    *)
(* its remote call: when the first lookup of a fan-out over several        *)
(* explores has ended, a second one has been started already.  The         *)
(* computation starts when all of them have ended.                         *)
C28_LookupsOverlap ==
    report = "large_explores" =>
        /\ (pc = "gather" /\ Len(explores) >= 2 /\ LookupsEnded = 1) =>
               LookupsStarted >= 2
        /\ pc \in {"Computing", "Grading", "Done"} =>
               (LookupsStarted = Len(explores) /\ LookupsEnded = Len(explores))

----------------------------------------------------------------------------
(* C29: a run of the report function that has made no call yet, a retry    *)
(* included, has empty lists and offset 0; and the lists that a retry has  *)
(* collected when its loops are over hold each upstream item once, in      *)
(* upstream order, and one lookup result for each collected explore:       *)
(* nothing of a failed run is in them.                                     *)
C29_RetryStartsClean ==
    /\ (pc \notin {"Idle", "Failed"} /\ RunCalls(tries) = <<>>) =>
          /\ pc = FirstPc(report)
          /\ offset = 0
          /\ explores = <<>> /\ all_users = <<>> /\ all_dashboards = <<>>
          /\ results = <<>> /\ explore_fields = <<>> /\ gather_error = NoError
          /\ inactive_users = <<>> /\ sample_user_names = <<>> /\ i = 0
    /\ (tries >= 2 /\ report \in ModelReports /\ pc \in PastPages) =>
          explores = ExpectedExplores(report, upstream.models)
    /\ (tries >= 2 /\ report = "inactive_users" /\ pc = "Joining") =>
          all_users = upstream.users
    /\ (tries >= 2 /\ report = "large_explores" /\ pc \in {"Computing", "Grading", "Done"}) =>
          /\ Len(output) = Len(explores)
          /\ \A k \in 1..Len(output) :
                 output[k].model = explores[k].model /\ output[k].explore = explores[k].explore

(* A result of the second run, after a first run that had collected the    *)
(* first page and failed at the second.                                    *)
C29_Witness ==
    /\ report \in ModelReports
    /\ pc = "Done"
    /\ tries = 2
    /\ raised[1].op = "all_lookml_models"
    /\ raised[1].arg = PageSize
    /\ Len(explores) >= 2

----------------------------------------------------------------------------
(* C30: the budget of max_tries runs is that of the report function.  An   *)
(* SDK error of any remote call ends its run at that call, so the k-th SDK *)
(* error is that of run k and its call is the last of the run; the error   *)
(* of run max_tries fails the report, whichever calls the earlier errors   *)
(* came from, and a report fails with an SDK error in no other way.        *)
C30_BudgetOfWholeFunction ==
    report \in {"unused_explores", "inactive_users"} =>
        LET sdk == SDKErrorsRaised
        IN  /\ tries <= max_tries
            /\ Len(sdk) <= max_tries
            /\ \A k \in 1..Len(sdk) :
                   /\ sdk[k].run = k
                   /\ RunCalls(k) # <<>>
                   /\ RunCalls(k)[Len(RunCalls(k))] =
                          [op |-> sdk[k].op, arg |-> sdk[k].arg, run |-> k]
            /\ Len(sdk) = max_tries =>
                   (pc = "Failed" /\ failure = sdk[max_tries].error)
            /\ (pc = "Failed" /\ failure.type = "SDKError") => Len(sdk) = max_tries

(* The report has failed after three runs that were ended by three         *)
(* different calls: the usage query, the first page and the second page.   *)
C30_Witness ==
    /\ report = "unused_explores"
    /\ pc = "Failed"
    /\ Len(raised) = 3
    /\ <<raised[1].op, raised[1].arg>> = <<"run_inline_query", 0>>
    /\ <<raised[2].op, raised[2].arg>> = <<"all_lookml_models", 0>>
    /\ <<raised[3].op, raised[3].arg>> = <<"all_lookml_models", PageSize>>

====
